---- MODULE Spec2Model ----
(***************************************************************************)
(* Model of spateo/alignment/morpho_alignment.py: the two chain aligners   *)
(* morpho_align and morpho_align_ref.  One run of the model is one call of *)
(* one of the two functions; every statement group of the function is one  *)
(* action.  Coordinates, deformation fields and assignment matrices are    *)
(* symbolic records that say which primitive produced them, for which pair *)
(* and from which input, so that data flow through the chain is visible.   *)
(***************************************************************************)
EXTENDS Integers, Sequences, FiniteSets, TLC

VARIABLES cfg, models, models_ref, models0, models_ref0,
          align_models, align_models_ref, pis, pis_ref, sigma2s,
          i, pc, LabelSimMat, P, sigma2, calls, failure

vars == <<cfg, models, models_ref, models0, models_ref0,
          align_models, align_models_ref, pis, pis_ref, sigma2s,
          i, pc, LabelSimMat, P, sigma2, calls, failure>>

(* ---------------------------- bounds ----------------------------------- *)
MaxN == 3
MaxPts == 2

(* ------------------------ names used by the code ----------------------- *)
None == "None"
spatial_key == "spatial"
key_added == "align_spatial"
VecFldDefault == "VecFld_morpho"
LabelColumn == "lab"
RigidSeedKey == "Rigid_3d_align_spatial"
CoarseKey == "Coarse_alignment"
OptimalKey == "optimal_RnA"
RigidStoreKey == "Rigid_align_spatial"
CategoryOrder == <<"a", "unknown">>

(* ------------------------------ helpers -------------------------------- *)
Range(s) == {s[x] : x \in DOMAIN s}
Min(a, b) == IF a < b THEN a ELSE b
EmptyMap == [x \in {} |-> x]
Put(f, k, v) == [x \in (DOMAIN f) \cup {k} |-> IF x = k THEN v ELSE f[x]]

(* symbolic values *)
Coord(kind, owner, res, pair, src) ==
  [kind |-> kind, owner |-> owner, res |-> res, pair |-> pair, src |-> src]
NoCoord == Coord("none", 0, "none", -1, "none")
Field(pair, res, stale) == [pair |-> pair, res |-> res, stale |-> stale]
NoField == Field(-1, "none", FALSE)
NoP == [pair |-> -1, res |-> "none", rows |-> 0, cols |-> 0, by |-> "none"]
NoSigma == [pair |-> -1]
NoSim == [present |-> FALSE, mat |-> <<>>]
NoFailure == [pair |-> -1, step |-> "none", kind |-> "none"]

(* an input sample: raw coordinates under spatial_key, optional labels,    *)
(* and, when carried, slots left over from an earlier run                  *)
MkSample(k, shape, carried, res) ==
  [npts |-> shape.npts,
   obs  |-> IF shape.hasLab THEN [x \in {LabelColumn} |-> shape.lab] ELSE EmptyMap,
   obsm |-> IF carried
            THEN Put(Put(EmptyMap, spatial_key, Coord("raw", k, res, -1, "none")),
                     key_added, Coord("old", k, res, -1, "none"))
            ELSE Put(EmptyMap, spatial_key, Coord("raw", k, res, -1, "none")),
   uns  |-> IF carried THEN Put(EmptyMap, VecFldDefault, Field(-1, res, TRUE))
            ELSE EmptyMap]

Unlabelled == {[npts |-> n, hasLab |-> FALSE, lab |-> <<>>] : n \in 1..MaxPts}
Labelled == UNION {{[npts |-> n, hasLab |-> TRUE, lab |-> l] :
                       l \in [1..n -> Range(CategoryOrder)]} : n \in 1..MaxPts}

AlignConfigs ==
  {[fn |-> "morpho_align", label_key |-> None, vecfld_key_added |-> v,
    return_full_assignment |-> TRUE, ref_given |-> FALSE, n_sampling |-> 1,
    carried |-> c] : v \in {VecFldDefault, None}, c \in BOOLEAN}
  \cup
  {[fn |-> "morpho_align", label_key |-> LabelColumn, vecfld_key_added |-> VecFldDefault,
    return_full_assignment |-> TRUE, ref_given |-> FALSE, n_sampling |-> 1,
    carried |-> FALSE]}

RefConfigs ==
  {[fn |-> "morpho_align_ref", label_key |-> None, vecfld_key_added |-> v,
    return_full_assignment |-> r, ref_given |-> TRUE, n_sampling |-> 1,
    carried |-> c] : v \in {VecFldDefault, None}, r \in BOOLEAN, c \in BOOLEAN}
  \cup
  {[fn |-> "morpho_align_ref", label_key |-> None, vecfld_key_added |-> v,
    return_full_assignment |-> r, ref_given |-> FALSE, n_sampling |-> n,
    carried |-> c] : v \in {VecFldDefault, None}, r \in BOOLEAN, c \in BOOLEAN,
                     n \in 1..MaxPts}

(* shapes of the input samples; a supplied reference list has one point    *)
(* count for all of its samples                                            *)
InputPool(c) == IF c.label_key = None THEN Unlabelled ELSE Unlabelled \cup Labelled
RefPool(c) == IF c.ref_given THEN Unlabelled
              ELSE {[npts |-> 1, hasLab |-> FALSE, lab |-> <<>>]}

(* ------------------- external primitives (contracts) ------------------- *)
(* Register: reads both samples' coordinates under spatialKey, writes the  *)
(* aligned coordinates of sampleB under keyAdded and the fitted field      *)
(* under vecfldKey (not saved when the key is None), in place only.        *)
BA_align(sampleA, sampleB, spatialKey, keyAdded, vecfldKey, inplace, pair) ==
  LET res == sampleB.obsm[spatialKey].res
      out == Coord("aligned", sampleB.obsm[spatialKey].owner, res, pair,
                   sampleB.obsm[spatialKey].kind)
      fld == Field(pair, res, FALSE)
      B1  == [sampleB EXCEPT !.obsm = Put(@, keyAdded, out)]
      B2  == IF vecfldKey = None THEN B1 ELSE [B1 EXCEPT !.uns = Put(@, vecfldKey, fld)]
  IN [sampleB |-> IF inplace THEN B2 ELSE sampleB,
      P |-> [pair |-> pair, res |-> res, rows |-> sampleA.npts,
             cols |-> sampleB.npts, by |-> "BA_align"],
      sigma2 |-> [pair |-> pair],
      field |-> fld]

(* Transform: applies a fitted field to query points *)
BA_transform(vecfld, quary_points) ==
  [nonrigid |-> Coord("nonrigid", quary_points.owner, quary_points.res,
                      vecfld.pair, quary_points.kind),
   rigid |-> Coord("rigid", quary_points.owner, quary_points.res,
                   vecfld.pair, quary_points.kind)]

(* TransformAndAssign on samples = [B, A] *)
BA_transform_and_assignment(sB, sA, vecfld, spatialKey) ==
  [P |-> [pair |-> vecfld.pair, res |-> sB.obsm[spatialKey].res, rows |-> sA.npts,
          cols |-> sB.npts, by |-> "BA_transform_and_assignment"],
   coords |-> Coord("nonrigid", sB.obsm[spatialKey].owner, sB.obsm[spatialKey].res,
                    vecfld.pair, sB.obsm[spatialKey].kind)]

(* Downsample: length preserving, at most n_sampling points per sample *)
downsampling(ms, n_sampling) ==
  [k \in DOMAIN ms |->
     [ms[k] EXCEPT !.npts = Min(@, n_sampling),
                   !.obs = [x \in DOMAIN @ |-> SubSeq(@[x], 1, Min(Len(@[x]), n_sampling))],
                   !.obsm = [x \in DOMAIN @ |-> [@[x] EXCEPT !.res = "ref"]],
                   !.uns = [x \in DOMAIN @ |-> [@[x] EXCEPT !.res = "ref"]]]]

(* ------------------------- pieces of the code -------------------------- *)
(* lines 57-64: the four seeding loops over the list given by the caller   *)
SeedSlots(m) ==
  [m EXCEPT !.obsm =
     Put(Put(Put(Put(@, key_added, m.obsm[spatial_key]),
                 RigidSeedKey, m.obsm[spatial_key]),
             CoarseKey, m.obsm[spatial_key]),
         OptimalKey, m.obsm[spatial_key])]

(* lines 69 and 188: _iteration(n=len(align_models) - 1) *)
NumPairsShort(n) == IF n >= 2 THEN n - 2 ELSE 0
NumPairs(n) == n - 1

(* lines 72 and 87: label similarity is built iff label_key is not None *)
UseLabelsNever(label_key) == FALSE
UseLabels(label_key) == label_key # None

(* lines 74-75: modelA.obs[label_key], modelB.obs[label_key] *)
LabelLookupRaises(modelA, modelB, label_key) ==
  label_key \notin DOMAIN modelA.obs \/ label_key \notin DOMAIN modelB.obs

(* line 76: np.union1d of the two category sets, sorted *)
UnionCategories(catA, catB) ==
  SelectSeq(CategoryOrder, LAMBDA c : c \in Range(catA) \cup Range(catB))

(* lines 77-82: integer codes in the union, "unknown" coded -1 *)
CatCode(cat, U) ==
  [p \in 1..Len(cat) |->
     IF \E c \in 1..Len(U) : U[c] = cat[p]
     THEN LET c == CHOOSE c \in 1..Len(U) : U[c] = cat[p]
          IN IF U[c] = "unknown" THEN -1 ELSE c - 1
     ELSE 0]

(* line 85: catBCode[i] with i the pair index of the enclosing loop *)
LabelIndexRaises(catB, pair) == pair >= Len(catB)

(* lines 83-86: work matrix [a x b], every column set to                   *)
(* catACode != catBCode[i], then transposed to [b x a]                     *)
BuildLabelSimMat(catA, catB, pair) ==
  LET U == UnionCategories(catA, catB)
      catACode == CatCode(catA, U)
      catBCode == CatCode(catB, U)
  IN [index \in 1..Len(catB) |->
        [x \in 1..Len(catA) |-> IF catACode[x] # catBCode[pair + 1] THEN 1 ELSE 0]]

(* lines 103 and 206: inplace=True *)
InplaceOff == FALSE
Inplace == TRUE

(* lines 114-115, 211-212, 236: list.append *)
AppendFront(list, x) == <<x>> \o list
AppendResult(list, x) == Append(list, x)

(* ------------------------------- state --------------------------------- *)
N == Len(models)
modelA == align_models[i + 1]
modelB == align_models[i + 2]

Call(prim, readA, readB, field, simPresent) ==
  [prim |-> prim, pair |-> i, readA |-> readA, readB |-> readB, field |-> field,
   simPresent |-> simPresent, nPis |-> Len(pis), nPisRef |-> Len(pis_ref),
   nSigma |-> Len(sigma2s)]

Fail(step, kind) ==
  /\ pc' = "failed"
  /\ failure' = [pair |-> i, step |-> step, kind |-> kind]

Init ==
  \E n \in 1..MaxN :
  \E c \in AlignConfigs \cup RefConfigs :
  \E shape \in [1..n -> InputPool(c)] :
  \E rshape \in RefPool(c) :
    /\ cfg = c
    /\ models = [k \in 1..n |-> MkSample(k, shape[k], c.carried, "full")]
    /\ models_ref = IF c.ref_given
                    THEN [k \in 1..n |-> MkSample(k, rshape, c.carried, "ref")]
                    ELSE <<>>
    /\ models0 = models
    /\ models_ref0 = models_ref
    /\ align_models = <<>>
    /\ align_models_ref = <<>>
    /\ pis = <<>>
    /\ pis_ref = <<>>
    /\ sigma2s = <<>>
    /\ i = 0
    /\ pc = IF c.fn = "morpho_align" THEN "ma_seed" ELSE "mr_down"
    /\ LabelSimMat = NoSim
    /\ P = NoP
    /\ sigma2 = NoSigma
    /\ calls = <<>>
    /\ failure = NoFailure

(* ---------------------------- morpho_align ----------------------------- *)
(* lines 57-64 *)
MA_Seed ==
  /\ pc = "ma_seed"
  /\ models' = [k \in 1..N |-> SeedSlots(models[k])]
  /\ pc' = "ma_copy"
  /\ UNCHANGED <<cfg, models_ref, models0, models_ref0, align_models, align_models_ref,
                 pis, pis_ref, sigma2s, i, LabelSimMat, P, sigma2, calls, failure>>

(* lines 66-69 *)
MA_Copy ==
  /\ pc = "ma_copy"
  /\ pis' = <<>>
  /\ sigma2s' = <<>>
  /\ align_models' = models
  /\ i' = 0
  /\ pc' = "ma_loop"
  /\ UNCHANGED <<cfg, models, models_ref, models0, models_ref0, align_models_ref,
                 pis_ref, LabelSimMat, P, sigma2, calls, failure>>

(* lines 70-88, both branches of the if *)
MA_Label ==
  /\ pc = "ma_loop"
  /\ i < NumPairs(Len(align_models))
  /\ IF UseLabels(cfg.label_key)
     THEN /\ ~LabelLookupRaises(modelA, modelB, cfg.label_key)
          /\ ~LabelIndexRaises(modelB.obs[cfg.label_key], i)
          /\ LabelSimMat' = [present |-> TRUE,
                             mat |-> BuildLabelSimMat(modelA.obs[cfg.label_key],
                                                      modelB.obs[cfg.label_key], i)]
     ELSE LabelSimMat' = NoSim
  /\ pc' = "ma_register"
  /\ UNCHANGED <<cfg, models, models_ref, models0, models_ref0, align_models,
                 align_models_ref, pis, pis_ref, sigma2s, i, P, sigma2, calls, failure>>

(* lines 74-75 raise KeyError *)
MA_LabelKeyError ==
  /\ pc = "ma_loop"
  /\ i < NumPairs(Len(align_models))
  /\ UseLabels(cfg.label_key)
  /\ LabelLookupRaises(modelA, modelB, cfg.label_key)
  /\ Fail("label", "KeyError")
  /\ UNCHANGED <<cfg, models, models_ref, models0, models_ref0, align_models,
                 align_models_ref, pis, pis_ref, sigma2s, i, LabelSimMat, P, sigma2, calls>>

(* line 85 raises IndexError *)
MA_LabelIndexError ==
  /\ pc = "ma_loop"
  /\ i < NumPairs(Len(align_models))
  /\ UseLabels(cfg.label_key)
  /\ ~LabelLookupRaises(modelA, modelB, cfg.label_key)
  /\ LabelIndexRaises(modelB.obs[cfg.label_key], i)
  /\ Fail("label", "IndexError")
  /\ UNCHANGED <<cfg, models, models_ref, models0, models_ref0, align_models,
                 align_models_ref, pis, pis_ref, sigma2s, i, LabelSimMat, P, sigma2, calls>>

(* lines 89-107 *)
MA_Register ==
  /\ pc = "ma_register"
  /\ LET r == BA_align(modelA, modelB, OptimalKey, key_added, cfg.vecfld_key_added,
                       Inplace, i)
     IN /\ align_models' = [align_models EXCEPT ![i + 2] = r.sampleB]
        /\ P' = r.P
        /\ sigma2' = r.sigma2
        /\ calls' = Append(calls, Call("BA_align", modelA.obsm[OptimalKey],
                                       modelB.obsm[OptimalKey], r.field,
                                       LabelSimMat.present))
  /\ pc' = "ma_transform"
  /\ UNCHANGED <<cfg, models, models_ref, models0, models_ref0, align_models_ref,
                 pis, pis_ref, sigma2s, i, LabelSimMat, failure>>

(* lines 89-107, the primitive raises *)
MA_RegisterFail ==
  /\ pc = "ma_register"
  /\ calls' = Append(calls, Call("BA_align", modelA.obsm[OptimalKey],
                                 modelB.obsm[OptimalKey], NoField, LabelSimMat.present))
  /\ Fail("register", "primitive")
  /\ UNCHANGED <<cfg, models, models_ref, models0, models_ref0, align_models,
                 align_models_ref, pis, pis_ref, sigma2s, i, LabelSimMat, P, sigma2>>

(* lines 108-113 *)
MA_Transform ==
  /\ pc = "ma_transform"
  /\ cfg.vecfld_key_added \in DOMAIN modelB.uns
  /\ LET t == BA_transform(modelB.uns[cfg.vecfld_key_added], modelB.obsm[spatial_key])
     IN /\ align_models' = [align_models EXCEPT ![i + 2].obsm = Put(@, RigidStoreKey, t.rigid)]
        /\ calls' = Append(calls, Call("BA_transform", NoCoord, modelB.obsm[spatial_key],
                                       modelB.uns[cfg.vecfld_key_added], FALSE))
  /\ pc' = "ma_append"
  /\ UNCHANGED <<cfg, models, models_ref, models0, models_ref0, align_models_ref,
                 pis, pis_ref, sigma2s, i, LabelSimMat, P, sigma2, failure>>

(* line 109 raises KeyError, or the primitive raises *)
MA_TransformFail ==
  /\ pc = "ma_transform"
  /\ IF cfg.vecfld_key_added \in DOMAIN modelB.uns
     THEN /\ calls' = Append(calls, Call("BA_transform", NoCoord, modelB.obsm[spatial_key],
                                         modelB.uns[cfg.vecfld_key_added], FALSE))
          /\ Fail("transform", "primitive")
     ELSE /\ calls' = calls
          /\ Fail("transform", "KeyError")
  /\ UNCHANGED <<cfg, models, models_ref, models0, models_ref0, align_models,
                 align_models_ref, pis, pis_ref, sigma2s, i, LabelSimMat, P, sigma2>>

(* lines 114-116 *)
MA_Append ==
  /\ pc = "ma_append"
  /\ pis' = AppendResult(pis, P)
  /\ sigma2s' = AppendResult(sigma2s, sigma2)
  /\ i' = i + 1
  /\ pc' = "ma_loop"
  /\ UNCHANGED <<cfg, models, models_ref, models0, models_ref0, align_models,
                 align_models_ref, pis_ref, LabelSimMat, P, sigma2, calls, failure>>

(* line 118 *)
MA_Return ==
  /\ pc = "ma_loop"
  /\ ~(i < NumPairs(Len(align_models)))
  /\ pc' = "done"
  /\ UNCHANGED <<cfg, models, models_ref, models0, models_ref0, align_models,
                 align_models_ref, pis, pis_ref, sigma2s, i, LabelSimMat, P, sigma2,
                 calls, failure>>

(* -------------------------- morpho_align_ref --------------------------- *)
(* lines 215 and 219: the field handed to the full-resolution sample *)
FieldKept(mB_ref, mB, key) ==
  IF key \in DOMAIN mB.uns THEN mB.uns[key] ELSE mB_ref.uns[key]
FieldForFullRes(mB_ref, mB, key) == mB_ref.uns[key]

(* lines 216-234: the two back-projection branches; P is rebound only in   *)
(* the first one                                                           *)
BackProjectTransformOnly(rfa, mB, mA, vecfld, Pold) ==
  LET t == BA_transform(vecfld, mB.obsm[spatial_key])
  IN [modelB |-> [mB EXCEPT !.obsm = Put(Put(@, key_added, t.nonrigid),
                                         RigidStoreKey, t.rigid)],
      P |-> Pold]
BackProject(rfa, mB, mA, vecfld, Pold) ==
  IF rfa
  THEN LET r == BA_transform_and_assignment(mB, mA, vecfld, spatial_key)
       IN [modelB |-> [mB EXCEPT !.obsm = Put(@, key_added, r.coords)],
           P |-> r.P]
  ELSE LET t == BA_transform(vecfld, mB.obsm[spatial_key])
       IN [modelB |-> [mB EXCEPT !.obsm = Put(Put(@, key_added, t.nonrigid),
                                              RigidStoreKey, t.rigid)],
           P |-> Pold]

(* lines 184-185: seed the output slot of a reference copy *)
SeedOutput(m) == [m EXCEPT !.obsm = Put(@, key_added, m.obsm[spatial_key])]

modelA_ref == align_models_ref[i + 1]
modelB_ref == align_models_ref[i + 2]

(* lines 172-179 *)
MR_Downsample ==
  /\ pc = "mr_down"
  /\ models_ref' = IF cfg.ref_given THEN models_ref
                   ELSE downsampling(models, cfg.n_sampling)
  /\ pc' = "mr_copy"
  /\ UNCHANGED <<cfg, models, models0, models_ref0, align_models, align_models_ref,
                 pis, pis_ref, sigma2s, i, LabelSimMat, P, sigma2, calls, failure>>

(* lines 181-188 *)
MR_Copy ==
  /\ pc = "mr_copy"
  /\ pis' = <<>>
  /\ pis_ref' = <<>>
  /\ sigma2s' = <<>>
  /\ align_models' = [models EXCEPT ![1] = SeedOutput(@)]
  /\ align_models_ref' = [k \in DOMAIN models_ref |-> SeedOutput(models_ref[k])]
  /\ i' = 0
  /\ pc' = "mr_loop"
  /\ UNCHANGED <<cfg, models, models_ref, models0, models_ref0, LabelSimMat, P, sigma2,
                 calls, failure>>

(* lines 189-212 *)
MR_Register ==
  /\ pc = "mr_loop"
  /\ i < NumPairs(Len(align_models))
  /\ LET r == BA_align(modelA_ref, modelB_ref, key_added, key_added,
                       cfg.vecfld_key_added, Inplace, i)
     IN /\ align_models_ref' = [align_models_ref EXCEPT ![i + 2] = r.sampleB]
        /\ P' = r.P
        /\ sigma2' = r.sigma2
        /\ pis_ref' = AppendResult(pis_ref, r.P)
        /\ sigma2s' = AppendResult(sigma2s, r.sigma2)
        /\ calls' = Append(calls, Call("BA_align", modelA_ref.obsm[key_added],
                                       modelB_ref.obsm[key_added], r.field, FALSE))
  /\ pc' = "mr_field"
  /\ UNCHANGED <<cfg, models, models_ref, models0, models_ref0, align_models, pis, i,
                 LabelSimMat, failure>>

(* lines 192-209, the primitive raises *)
MR_RegisterFail ==
  /\ pc = "mr_loop"
  /\ i < NumPairs(Len(align_models))
  /\ calls' = Append(calls, Call("BA_align", modelA_ref.obsm[key_added],
                                 modelB_ref.obsm[key_added], NoField, FALSE))
  /\ Fail("register", "primitive")
  /\ UNCHANGED <<cfg, models, models_ref, models0, models_ref0, align_models,
                 align_models_ref, pis, pis_ref, sigma2s, i, LabelSimMat, P, sigma2>>

(* lines 214-215 *)
MR_CopyField ==
  /\ pc = "mr_field"
  /\ cfg.vecfld_key_added \in DOMAIN modelB_ref.uns
  /\ align_models' = [align_models EXCEPT ![i + 2].uns =
                        Put(@, cfg.vecfld_key_added,
                            FieldForFullRes(modelB_ref, modelB, cfg.vecfld_key_added))]
  /\ pc' = "mr_back"
  /\ UNCHANGED <<cfg, models, models_ref, models0, models_ref0, align_models_ref,
                 pis, pis_ref, sigma2s, i, LabelSimMat, P, sigma2, calls, failure>>

(* line 215 raises KeyError *)
MR_CopyFieldKeyError ==
  /\ pc = "mr_field"
  /\ cfg.vecfld_key_added \notin DOMAIN modelB_ref.uns
  /\ Fail("field", "KeyError")
  /\ UNCHANGED <<cfg, models, models_ref, models0, models_ref0, align_models,
                 align_models_ref, pis, pis_ref, sigma2s, i, LabelSimMat, P, sigma2, calls>>

(* lines 216-234 *)
MR_BackProject ==
  /\ pc = "mr_back"
  /\ LET fld == FieldForFullRes(modelB_ref, modelB, cfg.vecfld_key_added)
         r == BackProject(cfg.return_full_assignment, modelB, modelA, fld, P)
     IN /\ align_models' = [align_models EXCEPT ![i + 2] = r.modelB]
        /\ P' = r.P
        /\ calls' = Append(calls,
                      Call(IF cfg.return_full_assignment
                           THEN "BA_transform_and_assignment" ELSE "BA_transform",
                           IF cfg.return_full_assignment THEN modelA.obsm[spatial_key]
                           ELSE NoCoord,
                           modelB.obsm[spatial_key], fld, FALSE))
  /\ pc' = "mr_append"
  /\ UNCHANGED <<cfg, models, models_ref, models0, models_ref0, align_models_ref,
                 pis, pis_ref, sigma2s, i, LabelSimMat, sigma2, failure>>

(* lines 216-234, the primitive raises *)
MR_BackProjectFail ==
  /\ pc = "mr_back"
  /\ calls' = Append(calls,
                Call(IF cfg.return_full_assignment
                     THEN "BA_transform_and_assignment" ELSE "BA_transform",
                     IF cfg.return_full_assignment THEN modelA.obsm[spatial_key]
                     ELSE NoCoord,
                     modelB.obsm[spatial_key],
                     FieldForFullRes(modelB_ref, modelB, cfg.vecfld_key_added), FALSE))
  /\ Fail("transform", "primitive")
  /\ UNCHANGED <<cfg, models, models_ref, models0, models_ref0, align_models,
                 align_models_ref, pis, pis_ref, sigma2s, i, LabelSimMat, P, sigma2>>

(* line 236 *)
MR_Append ==
  /\ pc = "mr_append"
  /\ pis' = AppendResult(pis, P)
  /\ i' = i + 1
  /\ pc' = "mr_loop"
  /\ UNCHANGED <<cfg, models, models_ref, models0, models_ref0, align_models,
                 align_models_ref, pis_ref, sigma2s, LabelSimMat, P, sigma2, calls, failure>>

(* line 238 *)
MR_Return ==
  /\ pc = "mr_loop"
  /\ ~(i < NumPairs(Len(align_models)))
  /\ pc' = "done"
  /\ UNCHANGED <<cfg, models, models_ref, models0, models_ref0, align_models,
                 align_models_ref, pis, pis_ref, sigma2s, i, LabelSimMat, P, sigma2,
                 calls, failure>>

Next ==
  \/ MA_Seed
  \/ MA_Copy
  \/ MA_Label
  \/ MA_LabelKeyError
  \/ MA_LabelIndexError
  \/ MA_Register
  \/ MA_RegisterFail
  \/ MA_Transform
  \/ MA_TransformFail
  \/ MA_Append
  \/ MA_Return
  \/ MR_Downsample
  \/ MR_Copy
  \/ MR_Register
  \/ MR_RegisterFail
  \/ MR_CopyField
  \/ MR_CopyFieldKeyError
  \/ MR_BackProject
  \/ MR_BackProjectFail
  \/ MR_Append
  \/ MR_Return

Spec == Init /\ [][Next]_vars

(* ------------------------------ properties ----------------------------- *)
HasResultOfPair(k) ==
  IF cfg.fn = "morpho_align"
  THEN /\ align_models[k].obsm[key_added] = Coord("aligned", k, "full", k - 2, "raw")
       /\ RigidStoreKey \in DOMAIN align_models[k].obsm
       /\ align_models[k].obsm[RigidStoreKey] = Coord("rigid", k, "full", k - 2, "raw")
  ELSE /\ align_models[k].obsm[key_added] = Coord("nonrigid", k, "full", k - 2, "raw")
       /\ align_models_ref[k].obsm[key_added].kind = "aligned"
       /\ align_models_ref[k].obsm[key_added].pair = k - 2

Untouched(k) ==
  IF cfg.fn = "morpho_align"
  THEN align_models[k] = models[k]
  ELSE /\ align_models[k] = models[k]
       /\ align_models_ref[k] = SeedOutput(models_ref[k])

(* C1: on return there are N aligned samples, N-1 assignment matrices and  *)
(* N-1 variance estimates; morpho_align_ref also returns N reference       *)
(* samples and N-1 reference assignment matrices.                          *)
C1_ResultCounts ==
  pc = "done" =>
    /\ Len(align_models) = N
    /\ Len(pis) = N - 1
    /\ Len(sigma2s) = N - 1
    /\ cfg.fn = "morpho_align_ref" =>
         /\ Len(models_ref) = N
         /\ Len(align_models_ref) = N
         /\ Len(pis_ref) = N - 1

C1_Witness ==
  /\ pc = "done"
  /\ cfg.fn = "morpho_align_ref"
  /\ ~cfg.ref_given
  /\ N >= 2
  /\ Len(pis) = N - 1

(* C2: on return every sample of the caller's input lists equals the deep  *)
(* copy taken before the call.                                             *)
C2_NonMutation ==
  pc = "done" =>
    /\ models = models0
    /\ cfg.ref_given => models_ref = models_ref0

(* C3: with label_key supplied, the matrix handed to Register for a pair   *)
(* with a points in A and b points in B has shape b x a, binary entries,   *)
(* and entry (j, x) is 0 exactly when codeA[x] = codeB[j].                 *)
C3_LabelSimMatrix ==
  (pc = "ma_register" /\ cfg.label_key # None) =>
    LET catA == modelA.obs[cfg.label_key]
        catB == modelB.obs[cfg.label_key]
        U == UnionCategories(catA, catB)
        codeA == CatCode(catA, U)
        codeB == CatCode(catB, U)
        M == LabelSimMat.mat
    IN /\ LabelSimMat.present
       /\ Len(M) = Len(catB)
       /\ \A j \in 1..Len(catB) :
            /\ Len(M[j]) = Len(catA)
            /\ \A x \in 1..Len(catA) :
                 /\ M[j][x] \in {0, 1}
                 /\ (M[j][x] = 0) <=> (codeA[x] = codeB[j])

(* C4: the k-th entry of every result list was produced for pair k, and    *)
(* every Register call for pair k starts with exactly the results of the   *)
(* pairs before k appended.                                                *)
C4_PairOrder ==
  /\ \A k \in 1..Len(pis) : pis[k].pair = k - 1
  /\ \A k \in 1..Len(sigma2s) : sigma2s[k].pair = k - 1
  /\ \A k \in 1..Len(pis_ref) : pis_ref[k].pair = k - 1 /\ pis_ref[k].by = "BA_align"
  /\ \A c \in 1..Len(calls) :
       calls[c].prim = "BA_align" =>
         /\ calls[c].nPis = calls[c].pair
         /\ calls[c].nSigma = calls[c].pair
         /\ cfg.fn = "morpho_align_ref" => calls[c].nPisRef = calls[c].pair

C4_Witness ==
  /\ pc = "done"
  /\ Len(pis) >= 2
  /\ Len(sigma2s) >= 2

C6_LabelErrorSurfaces ==
  cfg.label_key # None =>
    /\ \A c \in 1..Len(calls) :
         calls[c].prim = "BA_align" =>
           /\ calls[c].simPresent
           /\ cfg.label_key \in DOMAIN align_models[calls[c].pair + 1].obs
           /\ cfg.label_key \in DOMAIN align_models[calls[c].pair + 2].obs
    /\ pc = "ma_register" => LabelSimMat.present
    /\ (pc = "failed" /\ failure.step = "label") =>
         \A c \in 1..Len(calls) : calls[c].pair < failure.pair

C6_Witness ==
  /\ pc = "failed"
  /\ failure.step = "label"
  /\ failure.kind = "KeyError"
  /\ failure.pair = 1
  /\ cfg.label_key \in DOMAIN align_models[2].obs
  /\ \E c \in 1..Len(calls) : calls[c].prim = "BA_align" /\ calls[c].pair = 0

(* C7 as stated: when a primitive fails at pair f, nothing runs for a      *)
(* later pair, samples up to f hold the results of the completed pairs and *)
(* samples f+1.. are untouched copies.                                     *)
C7_FailureLeavesLaterUntouched ==
  (pc = "failed" /\ failure.kind = "primitive") =>
    /\ \A c \in 1..Len(calls) : calls[c].pair <= failure.pair
    /\ \A k \in 2..(failure.pair + 1) : HasResultOfPair(k)
    /\ \A k \in (failure.pair + 2)..N : Untouched(k)

(* C7 amended: when the call fails at pair f, nothing runs for a later     *)
(* pair, samples up to f hold the results of the completed pairs and       *)
(* samples f+2.. are untouched; sample f+1 is untouched when the failure   *)
(* is in the label step or in Register, and already holds what Register    *)
(* wrote for pair f when the failure comes after Register.                 *)
C7_FailureState ==
  pc = "failed" =>
    /\ \A c \in 1..Len(calls) : calls[c].pair <= failure.pair
    /\ Len(pis) = failure.pair
    /\ \A k \in 2..(failure.pair + 1) : HasResultOfPair(k)
    /\ \A k \in (failure.pair + 3)..N : Untouched(k)
    /\ failure.step \in {"label", "register"} => Untouched(failure.pair + 2)
    /\ failure.step \in {"field", "transform"} =>
         LET B == IF cfg.fn = "morpho_align" THEN align_models[failure.pair + 2]
                  ELSE align_models_ref[failure.pair + 2]
         IN /\ ~Untouched(failure.pair + 2)
            /\ B.obsm[key_added].kind = "aligned"
            /\ B.obsm[key_added].pair = failure.pair

C7_Witness ==
  /\ pc = "failed"
  /\ failure.kind = "primitive"
  /\ failure.step = "transform"
  /\ N >= failure.pair + 3

(* C8: in morpho_align_ref the field stored on full-resolution sample i+1  *)
(* and the field given to the back-projection primitive is the one that    *)
(* Register fitted on the reference pair (i, i+1) in the same iteration,   *)
(* and both chains have length N.                                          *)
C8_FieldOfSamePair ==
  cfg.fn = "morpho_align_ref" =>
    /\ pc \notin {"mr_down", "mr_copy"} =>
         Len(align_models) = N /\ Len(align_models_ref) = N
    /\ \A c \in 1..Len(calls) :
         calls[c].prim \in {"BA_transform", "BA_transform_and_assignment"} =>
           /\ calls[c].field = Field(calls[c].pair, "ref", FALSE)
           /\ c > 1
           /\ calls[c - 1].prim = "BA_align"
           /\ calls[c - 1].pair = calls[c].pair
           /\ calls[c - 1].field = calls[c].field
    /\ \A k \in 2..Len(align_models) :
         (k - 2 < i \/ (k - 2 = i /\ pc \in {"mr_back", "mr_append"})) =>
           /\ cfg.vecfld_key_added \in DOMAIN align_models[k].uns
           /\ align_models[k].uns[cfg.vecfld_key_added] = Field(k - 2, "ref", FALSE)
           /\ align_models[k].uns[cfg.vecfld_key_added] =
                align_models_ref[k].uns[cfg.vecfld_key_added]

C8_Witness ==
  /\ pc = "done"
  /\ cfg.fn = "morpho_align_ref"
  /\ cfg.carried
  /\ N >= 3
  /\ \E c \in 1..Len(calls) : calls[c].prim = "BA_transform" /\ calls[c].pair = 1

(* C9: in morpho_align the rigid tracking slot seeded in step 1 is the     *)
(* slot that receives the rigid output of Transform: on return it holds    *)
(* that output for every sample after the anchor and the raw coordinates   *)
(* for the anchor.                                                         *)
C9_RigidSlotHoldsRigidOutput ==
  (pc = "done" /\ cfg.fn = "morpho_align") =>
    \A k \in 1..N :
      align_models[k].obsm[RigidSeedKey] =
        IF k = 1 THEN Coord("raw", k, "full", -1, "none")
        ELSE BA_transform(Field(k - 2, "full", FALSE),
                          Coord("raw", k, "full", -1, "none")).rigid

(* C10: in morpho_align, for every pair i >= 1 the coordinates of sample i *)
(* that Register reads are those produced for sample i by the registration *)
(* of pair (i-1, i), not the raw input coordinates.                        *)
C10_RegisterReadsPreviousOutput ==
  cfg.fn = "morpho_align" =>
    \A c \in 1..Len(calls) :
      (calls[c].prim = "BA_align" /\ calls[c].pair >= 1) =>
        /\ calls[c].readA.kind = "aligned"
        /\ calls[c].readA.pair = calls[c].pair - 1
        /\ calls[c].readA = align_models[calls[c].pair + 1].obsm[key_added]
====
